---- MODULE Spec2Model ----
(***************************************************************************)
(* KanMind backend: boards, tasks and comments behind the DRF viewsets of  *)
(* boards_app and tasks_app.  The database rows are the state.  Every HTTP *)
(* handler is one action that handles a whole request; the handlers that   *)
(* write are also given statement by statement, as Django runs them in     *)
(* autocommit mode, for the requests that are in progress at the same time.*)
(***************************************************************************)
EXTENDS Integers, FiniteSets, Sequences, TLC

\* ---------------------------------------------------------------- bounds
NumUsers == 2        \* rows of auth.User: ids 1..NumUsers
MaxBoards == 2       \* boards ever created (primary keys are never reused)
MaxTasks == 2        \* tasks ever created
MaxComments == 2     \* comments ever created
MaxList == 2         \* longest "members" list a request carries
TaskSpecBoards == 1  \* boards and tasks ever created under SpecTasks
TaskSpecTasks == 1
CommentSpecBoards == 1  \* boards ever created under SpecComments and SpecOrdering
OrderSpecComments == 3  \* comments ever created under SpecOrdering
MaxTime == 2         \* readings of the clock that stamps created_at
NumWorkers == 2      \* requests that can be in progress at the same time
StaleSpecRows == 1   \* tasks and comments ever created under SpecStale

\* ---------------------------------------------------------------- values
Users == 1..NumUsers
\* ids a client can put into a request: 0 and NumUsers + 1 resolve to no user
InputIds == 0..(NumUsers + 1)
BoardIds == 1..MaxBoards
TaskIds == 1..MaxTasks
CommentIds == 1..MaxComments

\* JSON null / Python None for a nullable foreign key
None == -1
\* key not present in request.data
Absent == -2

TitleAbsent == "<absent>"
\* "" stands for every title CharField rejects (blank)
Titles == {"T1", "T2"}
TitleInputs == Titles \cup {"", TitleAbsent}

\* the "members" list of a request; the code only ever uses it as a set
\* (set(value), id__in=value) and tests it for emptiness
NoMembers == [given |-> FALSE, ids |-> {}]
AllUsers == [given |-> TRUE, ids |-> Users]
MemberInputs ==
    {[given |-> FALSE, ids |-> {}]} \cup
    {[given |-> TRUE, ids |-> s] : s \in {x \in SUBSET InputIds : Cardinality(x) <= MaxList}}

Contents == {"", "c"}

\* readings of timezone.now(); two saves can read the same value
Times == 1..MaxTime
Workers == 1..NumWorkers

VARIABLES
    boards,         \* boards_app_board + its members m2m: id -> [title, owner, members]
    tasks,          \* tasks_app_task: id -> [board, title, assignee, reviewer, created_by]
    comments,       \* tasks_app_comment: id -> [task, author, content, created_at]
    nextBoardId,    \* AutoField sequences
    nextTaskId,
    nextCommentId,
    last,           \* the request handled last and its response
    setWhileMember, \* history: task id -> was the user a member of the task's board
                    \* when the request that wrote assignee / reviewer was applied
    inflight        \* requests being handled statement by statement: worker -> request

vars == <<boards, tasks, comments, nextBoardId, nextTaskId, nextCommentId, last,
          setWhileMember, inflight>>

\* ---------------------------------------------------------------- responses
Response(status, fields, invalid) ==
    [status |-> status, fields |-> fields, invalid |-> invalid]

Ok == Response("Ok", {}, {})
NotFound == Response("NotFound", {}, {})
Forbidden == Response("Forbidden", {}, {})
ValidationError(fields, invalid) == Response("ValidationError", fields, invalid)
ServerError == Response("ServerError", {}, {})

\* how a request carries its "members" list: "absent", "empty" or "list"
ListKind(m) == IF ~m.given THEN "absent" ELSE IF m.ids = {} THEN "empty" ELSE "list"

\* a handled request: operation, requester, the id it addressed, and the response
Request(op, who, id, members, resp) ==
    [op |-> op, who |-> who, id |-> id, members |-> members, status |-> resp.status,
     fields |-> resp.fields, invalid |-> resp.invalid]

\* function f without the keys in s
Drop(f, s) == [k \in (DOMAIN f) \ s |-> f[k]]

\* ---------------------------------------------------------------- boards_app
\* the owner has no permission of their own
IsBoardMember_MembersOnly(u, b) == u \in boards[b].members

\* IsBoardMember.has_object_permission
IsBoardMember(u, b) == boards[b].owner = u \/ u \in boards[b].members

\* reports the first invalid id only
validate_members_First(m) ==
    IF m.given /\ m.ids \ Users # {}
        THEN {CHOOSE i \in m.ids \ Users : \A j \in m.ids \ Users : i <= j}
        ELSE {}

\* Board{Create,Update}Serializer.validate_members: the ids it reports
validate_members(m) ==
    IF m.given /\ m.ids # {} THEN m.ids \ Users ELSE {}

\* serializer.is_valid for the board serializers: the fields in error
BoardFieldErrors(title, m, partial) ==
    (IF title = TitleAbsent
        THEN (IF partial THEN {} ELSE {"title"})
        ELSE (IF title = "" THEN {"title"} ELSE {}))
    \cup (IF validate_members(m) # {} THEN {"members"} ELSE {})

\* BoardCreateSerializer.create: the row and its members as the serializer leaves them
BoardCreateSerializer_create(title, owner, m) ==
    [title |-> title, owner |-> owner,
     members |-> IF m.given /\ m.ids # {} THEN m.ids \cap Users ELSE {}]

\* the view's owner check left out
EnsureOwnerMember_Skipped(board, u) == board

\* BoardViewSet.create after serializer.save: the owner is added when missing
EnsureOwnerMember(board, u) ==
    IF u \notin board.members
        THEN [board EXCEPT !.members = @ \cup {u}]
        ELSE board

\* BoardViewSet.create
BoardViewSet_create(u, title, m) ==
    LET errs == BoardFieldErrors(title, m, FALSE) IN
    IF errs # {}
        THEN [resp |-> ValidationError(errs, validate_members(m)), boards |-> boards]
        ELSE [resp |-> Ok,
              boards |-> boards @@
                  (nextBoardId :> EnsureOwnerMember(BoardCreateSerializer_create(title, u, m), u))]

\* an empty list clears the members
BoardUpdateSerializer_update_Clears(board, title, m) ==
    LET titled == IF title # TitleAbsent THEN [board EXCEPT !.title = title] ELSE board IN
    IF m.given
        THEN [titled EXCEPT !.members = m.ids \cap Users]
        ELSE titled

\* BoardUpdateSerializer.update
BoardUpdateSerializer_update(board, title, m) ==
    LET titled == IF title # TitleAbsent THEN [board EXCEPT !.title = title] ELSE board IN
    IF m.given /\ Cardinality(m.ids) > 0
        THEN [titled EXCEPT !.members = m.ids \cap Users]
        ELSE titled

\* BoardViewSet.update (PUT, partial = FALSE) and partial_update (PATCH)
BoardViewSet_update(u, b, title, m, partial) ==
    LET errs == BoardFieldErrors(title, m, partial) IN
    IF b \notin DOMAIN boards THEN [resp |-> NotFound, boards |-> boards]
    ELSE IF ~IsBoardMember(u, b) THEN [resp |-> Forbidden, boards |-> boards]
    ELSE IF errs # {}
        THEN [resp |-> ValidationError(errs, validate_members(m)), boards |-> boards]
    ELSE [resp |-> Ok,
          boards |-> [boards EXCEPT ![b] = BoardUpdateSerializer_update(@, title, m)]]

\* BoardViewSet.retrieve (ModelViewSet): get_object, then the serialized board
BoardViewSet_retrieve(u, b) ==
    IF b \notin DOMAIN boards THEN NotFound
    ELSE IF ~IsBoardMember(u, b) THEN Forbidden
    ELSE Ok

\* the boards the user owns are listed too
BoardViewSet_get_queryset_OwnerToo(u) ==
    {b \in DOMAIN boards : boards[b].owner = u \/ u \in boards[b].members}

\* BoardViewSet.get_queryset for the list action: filter(members=request.user)
BoardViewSet_get_queryset(u) ==
    {b \in DOMAIN boards : u \in boards[b].members}

\* on_delete=CASCADE of Task.board and Comment.task
TasksOfBoard(b) == {t \in DOMAIN tasks : tasks[t].board = b}

\* comments are left behind
CommentsOfTasks_None(ts) == {}

CommentsOfTasks(ts) == {c \in DOMAIN comments : comments[c].task \in ts}

\* any member may delete
BoardViewSet_destroy_AnyMember(u, b) ==
    LET same == [resp |-> Forbidden, boards |-> boards, tasks |-> tasks, comments |-> comments] IN
    IF b \notin DOMAIN boards THEN [same EXCEPT !.resp = NotFound]
    ELSE IF ~IsBoardMember(u, b) THEN same
    ELSE [resp |-> Ok,
          boards |-> Drop(boards, {b}),
          tasks |-> Drop(tasks, TasksOfBoard(b)),
          comments |-> Drop(comments, CommentsOfTasks(TasksOfBoard(b)))]

\* BoardViewSet.destroy
BoardViewSet_destroy(u, b) ==
    LET same == [resp |-> Forbidden, boards |-> boards, tasks |-> tasks, comments |-> comments] IN
    IF b \notin DOMAIN boards THEN [same EXCEPT !.resp = NotFound]
    ELSE IF ~IsBoardMember(u, b) THEN same
    ELSE IF boards[b].owner # u THEN same
    ELSE [resp |-> Ok,
          boards |-> Drop(boards, {b}),
          tasks |-> Drop(tasks, TasksOfBoard(b)),
          comments |-> Drop(comments, CommentsOfTasks(TasksOfBoard(b)))]

\* ---------------------------------------------------------------- tasks_app
\* Python truth value of data.get('assignee_id'): missing, null and 0 are all false
Truthy(x) == x \notin {Absent, None, 0}

\* the "User.objects.get / board.members.filter(...).exists()" test of one id
UserIsBoardMember(b, x) == x \in Users /\ x \in boards[b].members

\* only the existence of the user is checked
validate_ExistenceOnly(b, a, r) ==
    IF Truthy(a) /\ a \notin Users THEN {"assignee_id"}
    ELSE IF Truthy(r) /\ r \notin Users THEN {"reviewer_id"}
    ELSE {}

\* Task{Create,Update}Serializer.validate: the field the ValidationError names
validate(b, a, r) ==
    IF Truthy(a) /\ ~UserIsBoardMember(b, a) THEN {"assignee_id"}
    ELSE IF Truthy(r) /\ ~UserIsBoardMember(b, r) THEN {"reviewer_id"}
    ELSE {}

\* serializer.is_valid: field validation first, validate() only when it passed
TaskFieldErrors(b, title, a, r, partial) ==
    LET errs == IF title = TitleAbsent
                    THEN (IF partial THEN {} ELSE {"title"})
                    ELSE (IF title = "" THEN {"title"} ELSE {})
    IN IF errs # {} THEN errs ELSE validate(b, a, r)

\* TaskCreateSerializer.create
TaskCreateSerializer_create(b, title, a, r, u) ==
    [board |-> b, title |-> title,
     assignee |-> IF Truthy(a) THEN a ELSE None,
     reviewer |-> IF Truthy(r) THEN r ELSE None,
     created_by |-> u]

\* the row is inserted before the serializer is validated
TaskViewSet_create_SavesFirst(u, b, title, a, r) ==
    IF b \notin DOMAIN boards THEN [resp |-> NotFound, tasks |-> tasks]
    ELSE IF u \notin boards[b].members THEN [resp |-> Forbidden, tasks |-> tasks]
    ELSE [resp |-> IF TaskFieldErrors(b, title, a, r, FALSE) # {}
                       THEN ValidationError(TaskFieldErrors(b, title, a, r, FALSE), {})
                       ELSE Ok,
          tasks |-> tasks @@ (nextTaskId :> TaskCreateSerializer_create(b, title, a, r, u))]

\* TaskViewSet.create
TaskViewSet_create(u, b, title, a, r) ==
    IF b \notin DOMAIN boards THEN [resp |-> NotFound, tasks |-> tasks]
    ELSE IF u \notin boards[b].members THEN [resp |-> Forbidden, tasks |-> tasks]
    ELSE IF TaskFieldErrors(b, title, a, r, FALSE) # {}
        THEN [resp |-> ValidationError(TaskFieldErrors(b, title, a, r, FALSE), {}),
              tasks |-> tasks]
    ELSE [resp |-> Ok,
          tasks |-> tasks @@ (nextTaskId :> TaskCreateSerializer_create(b, title, a, r, u))]

\* validated_data.pop(key, None): a missing key and null both give None
Pop(x) == IF x = Absent THEN None ELSE x

\* the popped values are assigned whether or not the request carried the keys
TaskUpdateSerializer_update_ClearsAbsent(task, title, a, r) ==
    [task EXCEPT
        !.title = IF title # TitleAbsent THEN title ELSE @,
        !.assignee = Pop(a),
        !.reviewer = Pop(r)]

\* TaskUpdateSerializer.update, before instance.save()
TaskUpdateSerializer_update(task, title, a, r) ==
    [task EXCEPT
        !.title = IF title # TitleAbsent THEN title ELSE @,
        !.assignee = IF a # Absent THEN Pop(a) ELSE @,
        !.reviewer = IF r # Absent THEN Pop(r) ELSE @]

\* the foreign keys Task.assignee / Task.reviewer hold: instance.save() fails on
\* a user id that is no row of auth.User
ForeignKeysHold(task) ==
    /\ task.assignee \in Users \cup {None}
    /\ task.reviewer \in Users \cup {None}

\* the serializer is validated before the membership of the requester
TaskViewSet_partial_update_ValidatesFirst(u, t, title, a, r) ==
    IF t \notin DOMAIN tasks THEN [resp |-> NotFound, tasks |-> tasks]
    ELSE IF TaskFieldErrors(tasks[t].board, title, a, r, TRUE) # {}
        THEN [resp |-> ValidationError(TaskFieldErrors(tasks[t].board, title, a, r, TRUE), {}),
              tasks |-> tasks]
    ELSE IF u \notin boards[tasks[t].board].members THEN [resp |-> Forbidden, tasks |-> tasks]
    ELSE IF ~ForeignKeysHold(TaskUpdateSerializer_update(tasks[t], title, a, r))
        THEN [resp |-> ServerError, tasks |-> tasks]
    ELSE [resp |-> Ok,
          tasks |-> [tasks EXCEPT ![t] = TaskUpdateSerializer_update(@, title, a, r)]]

\* TaskViewSet.partial_update
TaskViewSet_partial_update(u, t, title, a, r) ==
    IF t \notin DOMAIN tasks THEN [resp |-> NotFound, tasks |-> tasks]
    ELSE IF u \notin boards[tasks[t].board].members THEN [resp |-> Forbidden, tasks |-> tasks]
    ELSE IF TaskFieldErrors(tasks[t].board, title, a, r, TRUE) # {}
        THEN [resp |-> ValidationError(TaskFieldErrors(tasks[t].board, title, a, r, TRUE), {}),
              tasks |-> tasks]
    ELSE IF ~ForeignKeysHold(TaskUpdateSerializer_update(tasks[t], title, a, r))
        THEN [resp |-> ServerError, tasks |-> tasks]
    ELSE [resp |-> Ok,
          tasks |-> [tasks EXCEPT ![t] = TaskUpdateSerializer_update(@, title, a, r)]]

\* a request body: one value per key, Absent (TitleAbsent, "") for a missing key
Missing(k) == IF k = "title" THEN TitleAbsent ELSE IF k = "content" THEN "" ELSE Absent

\* Serializer.to_internal_value: only the keys of Meta.fields reach validated_data
Declared(data, fields) ==
    [k \in DOMAIN data |-> IF k \in fields THEN data[k] ELSE Missing(k)]

\* TaskCreateSerializer.Meta.fields
TaskCreateSerializer_Meta_fields == {"board", "title", "assignee_id", "reviewer_id"}

\* fields = '__all__'
TaskUpdateSerializer_Meta_fields_All ==
    {"board", "title", "assignee_id", "reviewer_id", "created_by"}

\* TaskUpdateSerializer.Meta.fields
TaskUpdateSerializer_Meta_fields == {"title", "assignee_id", "reviewer_id"}

\* CommentCreateSerializer.Meta.fields
CommentCreateSerializer_Meta_fields == {"content"}

\* TaskUpdateSerializer.update, the setattr loop over what validated_data holds
\* besides the title
setattr_validated(task, vd) ==
    [task EXCEPT
        !.board = IF vd.board # Absent THEN vd.board ELSE @,
        !.created_by = IF vd.created_by # Absent THEN vd.created_by ELSE @]

\* only tasks of the boards the user is a member of are returned
assigned_to_me_MembersOnly(u) ==
    {t \in DOMAIN tasks : tasks[t].assignee = u /\ u \in boards[tasks[t].board].members}

\* TaskViewSet.assigned_to_me / reviewing: the ids of the tasks in the response
assigned_to_me(u) == {t \in DOMAIN tasks : tasks[t].assignee = u}

reviewing(u) == {t \in DOMAIN tasks : tasks[t].reviewer = u}

\* the requester has to be a member of the board as well
TaskViewSet_destroy_MembersOnly(u, t) ==
    IF t \notin DOMAIN tasks
        THEN [resp |-> NotFound, tasks |-> tasks, comments |-> comments]
    ELSE IF u \notin boards[tasks[t].board].members
        THEN [resp |-> Forbidden, tasks |-> tasks, comments |-> comments]
    ELSE IF ~(tasks[t].created_by = u \/ boards[tasks[t].board].owner = u)
        THEN [resp |-> Forbidden, tasks |-> tasks, comments |-> comments]
    ELSE [resp |-> Ok,
          tasks |-> Drop(tasks, {t}),
          comments |-> Drop(comments, CommentsOfTasks({t}))]

\* every member of the task's board may delete the task
TaskViewSet_destroy_AnyMember(u, t) ==
    IF t \notin DOMAIN tasks
        THEN [resp |-> NotFound, tasks |-> tasks, comments |-> comments]
    ELSE IF ~(\/ tasks[t].created_by = u
              \/ boards[tasks[t].board].owner = u
              \/ u \in boards[tasks[t].board].members)
        THEN [resp |-> Forbidden, tasks |-> tasks, comments |-> comments]
    ELSE [resp |-> Ok,
          tasks |-> Drop(tasks, {t}),
          comments |-> Drop(comments, CommentsOfTasks({t}))]

\* TaskViewSet.destroy
TaskViewSet_destroy(u, t) ==
    IF t \notin DOMAIN tasks
        THEN [resp |-> NotFound, tasks |-> tasks, comments |-> comments]
    ELSE IF ~(tasks[t].created_by = u \/ boards[tasks[t].board].owner = u)
        THEN [resp |-> Forbidden, tasks |-> tasks, comments |-> comments]
    ELSE [resp |-> Ok,
          tasks |-> Drop(tasks, {t}),
          comments |-> Drop(comments, CommentsOfTasks({t}))]

\* CommentCreateSerializer.validate_content (and the blank check of the field)
validate_content(content) == IF content = "" THEN {"content"} ELSE {}

\* the requester passes as the board's owner too, as in IsBoardMember
TaskViewSet_comments_post_OwnerAllowed(u, t, content, now) ==
    IF t \notin DOMAIN tasks THEN [resp |-> NotFound, comments |-> comments]
    ELSE IF ~IsBoardMember(u, tasks[t].board)
        THEN [resp |-> Forbidden, comments |-> comments]
    ELSE IF validate_content(content) # {}
        THEN [resp |-> ValidationError(validate_content(content), {}), comments |-> comments]
    ELSE [resp |-> Ok,
          comments |-> comments @@
              (nextCommentId :> [task |-> t, author |-> u, content |-> content,
                                 created_at |-> now])]

\* TaskViewSet.comments, POST; now is the clock reading auto_now_add stores
TaskViewSet_comments_post(u, t, content, now) ==
    IF t \notin DOMAIN tasks THEN [resp |-> NotFound, comments |-> comments]
    ELSE IF u \notin boards[tasks[t].board].members
        THEN [resp |-> Forbidden, comments |-> comments]
    ELSE IF validate_content(content) # {}
        THEN [resp |-> ValidationError(validate_content(content), {}), comments |-> comments]
    ELSE [resp |-> Ok,
          comments |-> comments @@
              (nextCommentId :> [task |-> t, author |-> u, content |-> content,
                                 created_at |-> now])]

\* all enumerations of the finite set S as a sequence without repetition
RECURSIVE Perms(_)
Perms(S) ==
    IF S = {} THEN {<<>>}
    ELSE UNION {{<<x>> \o p : p \in Perms(S \ {x})} : x \in S}

\* task.comments.all() under Meta.ordering = ['created_at']: every listing the
\* ORDER BY created_at allows; rows with equal created_at have no defined order
task_comments_all(t) ==
    {s \in Perms({c \in DOMAIN comments : comments[c].task = t}) :
        \A i, j \in 1..Len(s) :
            i < j => comments[s[i]].created_at <= comments[s[j]].created_at}

\* TaskViewSet.comments, GET: the response and the listings it can carry
TaskViewSet_comments_get(u, t) ==
    IF t \notin DOMAIN tasks THEN [resp |-> NotFound, bodies |-> {<<>>}]
    ELSE IF u \notin boards[tasks[t].board].members
        THEN [resp |-> Forbidden, bodies |-> {<<>>}]
    ELSE [resp |-> Ok, bodies |-> task_comments_all(t)]

\* the author is tested before the comment's task
TaskViewSet_delete_comment_AuthorFirst(u, t, c) ==
    IF t \notin DOMAIN tasks THEN [resp |-> NotFound, comments |-> comments]
    ELSE IF c \notin DOMAIN comments THEN [resp |-> NotFound, comments |-> comments]
    ELSE IF comments[c].author # u THEN [resp |-> Forbidden, comments |-> comments]
    ELSE IF comments[c].task # t THEN [resp |-> NotFound, comments |-> comments]
    ELSE [resp |-> Ok, comments |-> Drop(comments, {c})]

\* TaskViewSet.delete_comment
TaskViewSet_delete_comment(u, t, c) ==
    IF t \notin DOMAIN tasks THEN [resp |-> NotFound, comments |-> comments]
    ELSE IF c \notin DOMAIN comments THEN [resp |-> NotFound, comments |-> comments]
    ELSE IF comments[c].task # t THEN [resp |-> NotFound, comments |-> comments]
    ELSE IF comments[c].author # u THEN [resp |-> Forbidden, comments |-> comments]
    ELSE [resp |-> Ok, comments |-> Drop(comments, {c})]

\* TaskViewSet.delete_comment: the 'detail' of the response body ("" for 204)
TaskViewSet_delete_comment_detail(u, t, c) ==
    IF t \notin DOMAIN tasks THEN "Task not found."
    ELSE IF c \notin DOMAIN comments THEN "Comment not found."
    ELSE IF comments[c].task # t THEN "Comment does not belong to this task."
    ELSE IF comments[c].author # u THEN "Only the comment author can delete this comment."
    ELSE ""

\* what the requester of a deleteComment gets back, and whether the rows stay
delete_comment_response(u, t, c) ==
    [status |-> TaskViewSet_delete_comment(u, t, c).resp.status,
     detail |-> TaskViewSet_delete_comment_detail(u, t, c),
     unchanged |-> TaskViewSet_delete_comment(u, t, c).comments = comments]

\* ---------------------------------------------------------------- actions
\* no model instance loaded
NoInstance ==
    [board |-> 0, title |-> "", assignee |-> None, reviewer |-> None, created_by |-> 0]

\* no board loaded
NoBoard == [title |-> "", owner |-> 0, members |-> {}]

\* a worker that handles no request
Idle ==
    [op |-> "none", pc |-> "idle", who |-> 0, id |-> 0, title |-> TitleAbsent,
     a |-> Absent, r |-> Absent, members |-> {}, content |-> "",
     instance |-> NoInstance, board |-> NoBoard, collected |-> {}, deleted |-> {},
     status |-> ""]

Init ==
    /\ boards = <<>>
    /\ tasks = <<>>
    /\ comments = <<>>
    /\ nextBoardId = 1
    /\ nextTaskId = 1
    /\ nextCommentId = 1
    /\ last = Request("none", 0, 0, "absent", Ok)
    /\ setWhileMember = <<>>
    /\ inflight = [w \in Workers |-> Idle]

CreateBoard(u, title, m) ==
    LET r == BoardViewSet_create(u, title, m) IN
    /\ r.resp.status = "Ok" => nextBoardId <= MaxBoards
    /\ boards' = r.boards
    /\ nextBoardId' = IF r.resp.status = "Ok" THEN nextBoardId + 1 ELSE nextBoardId
    /\ last' = Request("createBoard", u, nextBoardId, ListKind(m), r.resp)
    /\ UNCHANGED <<inflight, tasks, comments, nextTaskId, nextCommentId, setWhileMember>>

\* assignee and reviewer are cleared when they are no longer members
UpdateBoard_Rechecks(u, b, title, m, partial) ==
    LET r == BoardViewSet_update(u, b, title, m, partial)
        Kept(t, x) == IF tasks[t].board \in DOMAIN r.boards
                         /\ x \in r.boards[tasks[t].board].members THEN x ELSE None
    IN
    /\ boards' = r.boards
    /\ tasks' = [t \in DOMAIN tasks |->
                    [tasks[t] EXCEPT !.assignee = Kept(t, @), !.reviewer = Kept(t, @)]]
    /\ last' = Request("updateBoard", u, b, ListKind(m), r.resp)
    /\ UNCHANGED <<inflight, comments, nextBoardId, nextTaskId, nextCommentId, setWhileMember>>

UpdateBoard(u, b, title, m, partial) ==
    LET r == BoardViewSet_update(u, b, title, m, partial) IN
    /\ boards' = r.boards
    /\ last' = Request("updateBoard", u, b, ListKind(m), r.resp)
    /\ UNCHANGED <<inflight, tasks, comments, nextBoardId, nextTaskId, nextCommentId, setWhileMember>>

GetBoardDetail(u, b) ==
    /\ last' = Request("getBoardDetail", u, b, "absent", BoardViewSet_retrieve(u, b))
    /\ UNCHANGED <<inflight, boards, tasks, comments, nextBoardId, nextTaskId, nextCommentId,
                   setWhileMember>>

\* listBoardsForUser: the list action has no object, so no object permission
ListBoards(u) ==
    /\ last' = Request("listBoards", u, 0, "absent", Ok)
                @@ [body |-> BoardViewSet_get_queryset(u)]
    /\ UNCHANGED <<inflight, boards, tasks, comments, nextBoardId, nextTaskId, nextCommentId,
                   setWhileMember>>

DeleteBoard(u, b) ==
    LET r == BoardViewSet_destroy(u, b) IN
    /\ boards' = r.boards
    /\ tasks' = r.tasks
    /\ comments' = r.comments
    /\ setWhileMember' = Drop(setWhileMember, (DOMAIN tasks) \ (DOMAIN r.tasks))
    /\ last' = Request("deleteBoard", u, b, "absent", r.resp)
    /\ UNCHANGED <<inflight, nextBoardId, nextTaskId, nextCommentId>>

\* was x, the value a request leaves in assignee / reviewer, a member of board b
WasMember(b, x) == x = None \/ x \in boards[b].members

CreateTask(u, b, title, a, r) ==
    LET res == TaskViewSet_create(u, b, title, a, r) IN
    /\ res.resp.status = "Ok" => nextTaskId <= MaxTasks
    /\ tasks' = res.tasks
    /\ nextTaskId' = IF res.resp.status = "Ok" THEN nextTaskId + 1 ELSE nextTaskId
    /\ setWhileMember' =
          IF res.resp.status = "Ok"
              THEN setWhileMember @@
                   (nextTaskId :> [assignee |-> WasMember(b, res.tasks[nextTaskId].assignee),
                                   reviewer |-> WasMember(b, res.tasks[nextTaskId].reviewer)])
              ELSE setWhileMember
    /\ last' = Request("createTask", u, b, "absent", res.resp)
    /\ UNCHANGED <<inflight, boards, comments, nextBoardId, nextCommentId>>

UpdateTask(u, t, title, a, r) ==
    LET res == TaskViewSet_partial_update(u, t, title, a, r) IN
    /\ tasks' = res.tasks
    /\ setWhileMember' =
          IF res.resp.status = "Ok"
              THEN [setWhileMember EXCEPT
                      ![t].assignee = IF a # Absent
                                          THEN WasMember(tasks[t].board, res.tasks[t].assignee)
                                          ELSE @,
                      ![t].reviewer = IF r # Absent
                                          THEN WasMember(tasks[t].board, res.tasks[t].reviewer)
                                          ELSE @]
              ELSE setWhileMember
    /\ last' = Request("updateTask", u, t, "absent", res.resp)
    /\ UNCHANGED <<inflight, boards, comments, nextBoardId, nextTaskId, nextCommentId>>

DeleteTask(u, t) ==
    LET res == TaskViewSet_destroy(u, t) IN
    /\ tasks' = res.tasks
    /\ comments' = res.comments
    /\ setWhileMember' = Drop(setWhileMember, (DOMAIN tasks) \ (DOMAIN res.tasks))
    /\ last' = Request("deleteTask", u, t, "absent", res.resp)
    /\ UNCHANGED <<inflight, boards, nextBoardId, nextTaskId, nextCommentId>>

\* addComment while the clock reads now; the clock never runs backwards
AddCommentAt(u, t, content, now) ==
    LET res == TaskViewSet_comments_post(u, t, content, now) IN
    /\ \A c \in DOMAIN comments : comments[c].created_at <= now
    /\ comments' = res.comments
    /\ nextCommentId' = IF res.resp.status = "Ok" THEN nextCommentId + 1 ELSE nextCommentId
    /\ last' = Request("addComment", u, t, "absent", res.resp)
    /\ UNCHANGED <<inflight, boards, tasks, nextBoardId, nextTaskId, setWhileMember>>

\* addComment under a clock that ticks between any two comments
AddComment(u, t, content) ==
    /\ TaskViewSet_comments_post(u, t, content, nextCommentId).resp.status = "Ok" =>
           nextCommentId <= MaxComments
    /\ AddCommentAt(u, t, content, nextCommentId)

\* listComments: the response carries one of the listings the query allows
ListComments(u, t) ==
    /\ \E body \in TaskViewSet_comments_get(u, t).bodies :
          last' = Request("listComments", u, t, "absent", TaskViewSet_comments_get(u, t).resp)
                  @@ [body |-> body]
    /\ UNCHANGED <<inflight, boards, tasks, comments, nextBoardId, nextTaskId,
                   nextCommentId, setWhileMember>>

AssignedToMe(u) ==
    /\ last' = Request("assignedToMe", u, 0, "absent", Ok) @@ [body |-> assigned_to_me(u)]
    /\ UNCHANGED <<inflight, boards, tasks, comments, nextBoardId, nextTaskId,
                   nextCommentId, setWhileMember>>

Reviewing(u) ==
    /\ last' = Request("reviewing", u, 0, "absent", Ok) @@ [body |-> reviewing(u)]
    /\ UNCHANGED <<inflight, boards, tasks, comments, nextBoardId, nextTaskId,
                   nextCommentId, setWhileMember>>

DeleteComment(u, t, c) ==
    LET res == TaskViewSet_delete_comment(u, t, c) IN
    /\ comments' = res.comments
    /\ last' = Request("deleteComment", u, c, "absent", res.resp) @@ [task |-> t]
    /\ UNCHANGED <<inflight, boards, tasks, nextBoardId, nextTaskId, nextCommentId, setWhileMember>>

\* createTask from a request body that may carry "created_by"
CreateTaskBody(u, data) ==
    LET vd == Declared(data, TaskCreateSerializer_Meta_fields) IN
    /\ CreateTask(u, data.board, vd.title, vd.assignee_id, vd.reviewer_id)

\* updateTask from a request body that may carry "board" and "created_by"
UpdateTaskBody(u, t, data) ==
    LET vd == Declared(data, TaskUpdateSerializer_Meta_fields)
        res == TaskViewSet_partial_update(u, t, vd.title, vd.assignee_id, vd.reviewer_id)
    IN
    /\ tasks' = IF res.resp.status = "Ok"
                    THEN [res.tasks EXCEPT ![t] = setattr_validated(@, vd)]
                    ELSE res.tasks
    /\ setWhileMember' =
          IF res.resp.status = "Ok"
              THEN [setWhileMember EXCEPT
                      ![t].assignee = IF vd.assignee_id # Absent
                                          THEN WasMember(tasks[t].board, res.tasks[t].assignee)
                                          ELSE @,
                      ![t].reviewer = IF vd.reviewer_id # Absent
                                          THEN WasMember(tasks[t].board, res.tasks[t].reviewer)
                                          ELSE @]
              ELSE setWhileMember
    /\ last' = Request("updateTask", u, t, "absent", res.resp) @@ [data |-> data]
    /\ UNCHANGED <<inflight, boards, comments, nextBoardId, nextTaskId, nextCommentId>>

\* addComment from a request body that may carry "task" and "author"
AddCommentBody(u, t, data) ==
    AddComment(u, t, Declared(data, CommentCreateSerializer_Meta_fields).content)

\* ---------------------------------------------------------------- statements
\* The handlers open no transaction and take no lock: every ORM call below is
\* a statement of its own, committed when it returns, and the statements of
\* requests in progress on different workers interleave.

\* the request of worker w moves on to q
Proceed(w, q) == inflight' = [inflight EXCEPT ![w] = q]

\* the request of worker w ends with the given status
Done(w, status) == Proceed(w, [inflight[w] EXCEPT !.pc = "done", !.status = status])

\* the response is sent, the worker is free again
Respond(w) ==
    /\ inflight[w].pc = "done"
    /\ Proceed(w, Idle)
    /\ UNCHANGED <<boards, tasks, comments, nextBoardId, nextTaskId, nextCommentId, last,
                   setWhileMember>>

\* requests of the given kind that have not inserted their row yet
Pending(op) == Cardinality({w \in Workers : inflight[w].op = op /\ inflight[w].id = 0})

\* the row is written whether or not its board exists
Task_save_Unchecked(t, row) ==
    [resp |-> Ok,
     tasks |-> [k \in (DOMAIN tasks) \cup {t} |-> IF k = t THEN row ELSE tasks[k]]]

\* Task.objects.create / Model.save of a task: the UPDATE, or the INSERT when no
\* row has the key; the foreign keys to the board and the users are enforced
Task_save(t, row) ==
    IF row.board \notin DOMAIN boards \/ ~ForeignKeysHold(row)
        THEN [resp |-> ServerError, tasks |-> tasks]
        ELSE [resp |-> Ok,
              tasks |-> [k \in (DOMAIN tasks) \cup {t} |-> IF k = t THEN row ELSE tasks[k]]]

\* TaskViewSet.create up to serializer.is_valid: every check passes
CreateTaskCheck(w, u, b, title, a, r) ==
    /\ inflight[w].pc = "idle"
    /\ TaskViewSet_create(u, b, title, a, r).resp = Ok
    /\ nextTaskId + Pending("createTask") <= MaxTasks
    /\ Proceed(w, [Idle EXCEPT !.op = "createTask", !.pc = "validated", !.who = u,
                                !.title = title, !.a = a, !.r = r,
                                !.instance = [board |-> b, title |-> title,
                                              assignee |-> None, reviewer |-> None,
                                              created_by |-> u]])
    /\ UNCHANGED <<boards, tasks, comments, nextBoardId, nextTaskId, nextCommentId, last,
                   setWhileMember>>

\* TaskCreateSerializer.create: Task.objects.create(**validated_data)
CreateTaskInsert(w) ==
    LET q == inflight[w]
        res == Task_save(nextTaskId, q.instance)
    IN  /\ q.op = "createTask" /\ q.pc = "validated"
        /\ tasks' = res.tasks
        /\ IF res.resp = Ok
              THEN /\ nextTaskId' = nextTaskId + 1
                   /\ setWhileMember' =
                         setWhileMember @@ (nextTaskId :> [assignee |-> TRUE, reviewer |-> TRUE])
                   /\ Proceed(w, [q EXCEPT !.pc = "created", !.id = nextTaskId])
              ELSE /\ Done(w, "ServerError")
                   /\ UNCHANGED <<nextTaskId, setWhileMember>>
        /\ UNCHANGED <<boards, comments, nextBoardId, nextCommentId, last>>

\* the value of assignee / reviewer the ghost records for a saved row
Written(row) ==
    [assignee |-> WasMember(row.board, row.assignee),
     reviewer |-> WasMember(row.board, row.reviewer)]

\* TaskCreateSerializer.create: the ids are set on the instance, then task.save()
CreateTaskSave(w) ==
    LET q == inflight[w]
        row == [q.instance EXCEPT !.assignee = IF Truthy(q.a) THEN q.a ELSE @,
                                  !.reviewer = IF Truthy(q.r) THEN q.r ELSE @]
        res == Task_save(q.id, row)
    IN  /\ q.op = "createTask" /\ q.pc = "created"
        /\ tasks' = res.tasks
        /\ setWhileMember' =
              IF res.resp = Ok THEN (q.id :> Written(row)) @@ setWhileMember
                               ELSE setWhileMember
        /\ Done(w, res.resp.status)
        /\ UNCHANGED <<boards, comments, nextBoardId, nextTaskId, nextCommentId, last>>

\* TaskViewSet.partial_update up to serializer.is_valid: get_object loads the
\* instance, every check passes
UpdateTaskCheck(w, u, t, title, a, r) ==
    /\ inflight[w].pc = "idle"
    /\ t \in DOMAIN tasks
    /\ u \in boards[tasks[t].board].members
    /\ TaskFieldErrors(tasks[t].board, title, a, r, TRUE) = {}
    /\ Proceed(w, [Idle EXCEPT !.op = "updateTask", !.pc = "validated", !.who = u,
                                !.id = t, !.title = title, !.a = a, !.r = r,
                                !.instance = tasks[t]])
    /\ UNCHANGED <<boards, tasks, comments, nextBoardId, nextTaskId, nextCommentId, last,
                   setWhileMember>>

\* TaskUpdateSerializer.update: the fields are set on the loaded instance, then
\* instance.save() writes every column of it
UpdateTaskSave(w) ==
    LET q == inflight[w]
        row == TaskUpdateSerializer_update(q.instance, q.title, q.a, q.r)
        res == Task_save(q.id, row)
    IN  /\ q.op = "updateTask" /\ q.pc = "validated"
        /\ tasks' = res.tasks
        /\ setWhileMember' =
              IF res.resp = Ok THEN (q.id :> Written(row)) @@ setWhileMember
                               ELSE setWhileMember
        /\ Done(w, res.resp.status)
        /\ UNCHANGED <<boards, comments, nextBoardId, nextTaskId, nextCommentId, last>>

\* BoardViewSet.create up to serializer.is_valid: every check passes
CreateBoardValidate(w, u, title, m) ==
    /\ inflight[w].pc = "idle"
    /\ BoardFieldErrors(title, m, FALSE) = {}
    /\ nextBoardId + Pending("createBoard") <= MaxBoards
    /\ Proceed(w, [Idle EXCEPT !.op = "createBoard", !.pc = "validated", !.who = u,
                                !.title = title, !.members = m.ids])
    /\ UNCHANGED <<boards, tasks, comments, nextBoardId, nextTaskId, nextCommentId, last,
                   setWhileMember>>

\* BoardCreateSerializer.create: Board.objects.create(**validated_data)
CreateBoardInsert(w) ==
    LET q == inflight[w] IN
    /\ q.op = "createBoard" /\ q.pc = "validated"
    /\ boards' = boards @@
          (nextBoardId :> [title |-> q.title, owner |-> q.who, members |-> {}])
    /\ nextBoardId' = nextBoardId + 1
    /\ Proceed(w, [q EXCEPT !.pc = "created", !.id = nextBoardId])
    /\ UNCHANGED <<tasks, comments, nextTaskId, nextCommentId, last, setWhileMember>>

\* board.members.set(users) / board.members.add(user): the rows of the m2m
\* table reference the board, which has to exist
Members_set(b, ids) ==
    IF b \notin DOMAIN boards
        THEN [resp |-> ServerError, boards |-> boards]
        ELSE [resp |-> Ok, boards |-> [boards EXCEPT ![b].members = ids]]

\* BoardCreateSerializer.create: board.members.set(users), for a list with ids
CreateBoardSetMembers(w) ==
    LET q == inflight[w]
        res == Members_set(q.id, q.members)
    IN  /\ q.op = "createBoard" /\ q.pc = "created" /\ q.members # {}
        /\ boards' = res.boards
        /\ IF res.resp = Ok THEN Proceed(w, [q EXCEPT !.pc = "members_set"])
                            ELSE Done(w, "ServerError")
        /\ UNCHANGED <<tasks, comments, nextBoardId, nextTaskId, nextCommentId, last,
                       setWhileMember>>

\* BoardViewSet.create after serializer.save: the owner is added when missing
CreateBoardAddOwner(w) ==
    LET q == inflight[w]
        now == IF q.id \in DOMAIN boards THEN boards[q.id] ELSE NoBoard
        res == Members_set(q.id, EnsureOwnerMember(now, q.who).members)
    IN  /\ q.op = "createBoard"
        /\ q.pc = "members_set" \/ (q.pc = "created" /\ q.members = {})
        /\ boards' = res.boards
        /\ Done(w, res.resp.status)
        /\ UNCHANGED <<tasks, comments, nextBoardId, nextTaskId, nextCommentId, last,
                       setWhileMember>>

\* BoardViewSet.update / partial_update up to serializer.is_valid: get_object
\* loads the instance, every check passes
UpdateBoardCheck(w, u, b, title, m, partial) ==
    /\ inflight[w].pc = "idle"
    /\ b \in DOMAIN boards
    /\ IsBoardMember(u, b)
    /\ BoardFieldErrors(title, m, partial) = {}
    /\ Proceed(w, [Idle EXCEPT !.op = "updateBoard", !.pc = "validated", !.who = u,
                                !.id = b, !.title = title, !.members = m.ids,
                                !.board = boards[b]])
    /\ UNCHANGED <<boards, tasks, comments, nextBoardId, nextTaskId, nextCommentId, last,
                   setWhileMember>>

\* BoardUpdateSerializer.update: the title is set on the loaded instance and
\* instance.save() writes the row (or inserts it when no row has the key)
UpdateBoardSave(w) ==
    LET q == inflight[w]
        row == [title |-> IF q.title # TitleAbsent THEN q.title ELSE q.board.title,
                owner |-> q.board.owner,
                members |-> IF q.id \in DOMAIN boards THEN boards[q.id].members ELSE {}]
    IN  /\ q.op = "updateBoard" /\ q.pc = "validated"
        /\ boards' = [k \in (DOMAIN boards) \cup {q.id} |-> IF k = q.id THEN row ELSE boards[k]]
        /\ IF q.members # {} THEN Proceed(w, [q EXCEPT !.pc = "saved"])
                             ELSE Done(w, "Ok")
        /\ UNCHANGED <<tasks, comments, nextBoardId, nextTaskId, nextCommentId, last,
                       setWhileMember>>

\* BoardUpdateSerializer.update: instance.members.set(users), for a list with ids
UpdateBoardSetMembers(w) ==
    LET q == inflight[w]
        res == Members_set(q.id, q.members)
    IN  /\ q.op = "updateBoard" /\ q.pc = "saved"
        /\ boards' = res.boards
        /\ Done(w, res.resp.status)
        /\ UNCHANGED <<tasks, comments, nextBoardId, nextTaskId, nextCommentId, last,
                       setWhileMember>>

\* the comment is inserted whether or not its task exists
Comment_save_Unchecked(t, u, content, now) ==
    [resp |-> Ok,
     comments |-> comments @@
         (nextCommentId :> [task |-> t, author |-> u, content |-> content,
                            created_at |-> now])]

\* serializer.save(task=task, author=request.user): the INSERT of the comment;
\* the foreign key Comment.task is enforced
Comment_save(t, u, content, now) ==
    IF t \notin DOMAIN tasks
        THEN [resp |-> ServerError, comments |-> comments]
        ELSE [resp |-> Ok,
              comments |-> comments @@
                  (nextCommentId :> [task |-> t, author |-> u, content |-> content,
                                     created_at |-> now])]

\* addComment requests that may still insert a comment
Commenting == Cardinality({w \in Workers : inflight[w].op = "addComment" /\ inflight[w].pc # "done"})

\* TaskViewSet.comments (POST): get_object loads the task
AddCommentGetObject(w, u, t, content) ==
    /\ inflight[w].pc = "idle"
    /\ t \in DOMAIN tasks
    /\ nextCommentId + Commenting <= MaxComments
    /\ Proceed(w, [Idle EXCEPT !.op = "addComment", !.pc = "loaded", !.who = u, !.id = t,
                                !.content = content, !.instance = tasks[t]])
    /\ UNCHANGED <<boards, tasks, comments, nextBoardId, nextTaskId, nextCommentId, last,
                   setWhileMember>>

\* TaskViewSet.comments (POST): task.board is loaded, the membership of the
\* requester is tested and the serializer validated
AddCommentCheckMember(w) ==
    LET q == inflight[w] IN
    /\ q.op = "addComment" /\ q.pc = "loaded"
    /\ IF q.instance.board \notin DOMAIN boards THEN Done(w, "ServerError")
       ELSE IF q.who \notin boards[q.instance.board].members THEN Done(w, "Forbidden")
       ELSE IF validate_content(q.content) # {} THEN Done(w, "ValidationError")
       ELSE Proceed(w, [q EXCEPT !.pc = "validated"])
    /\ UNCHANGED <<boards, tasks, comments, nextBoardId, nextTaskId, nextCommentId, last,
                   setWhileMember>>

\* TaskViewSet.comments (POST): serializer.save(task=task, author=request.user)
AddCommentSave(w, now) ==
    LET q == inflight[w]
        res == Comment_save(q.id, q.who, q.content, now)
    IN  /\ q.op = "addComment" /\ q.pc = "validated"
        /\ comments' = res.comments
        /\ nextCommentId' = IF res.resp = Ok THEN nextCommentId + 1 ELSE nextCommentId
        /\ Done(w, res.resp.status)
        /\ UNCHANGED <<boards, tasks, nextBoardId, nextTaskId, last, setWhileMember>>

\* TaskViewSet.destroy up to the permission test: get_object loads the task,
\* the requester is its creator or the owner of its board
DeleteTaskCheck(w, u, t) ==
    /\ inflight[w].pc = "idle"
    /\ TaskViewSet_destroy(u, t).resp = Ok
    /\ Proceed(w, [Idle EXCEPT !.op = "deleteTask", !.pc = "checked", !.who = u, !.id = t,
                                !.collected = {t}])
    /\ UNCHANGED <<boards, tasks, comments, nextBoardId, nextTaskId, nextCommentId, last,
                   setWhileMember>>

\* task.delete() / board.delete(), first statement of the cascade (on_delete =
\* CASCADE runs in one transaction): the comments of the collected tasks go
DeleteComments(w) ==
    LET q == inflight[w] IN
    /\ \/ q.op = "deleteTask" /\ q.pc = "checked"
       \/ q.op = "deleteBoard" /\ q.pc = "collected"
    /\ Proceed(w, [q EXCEPT !.pc = "deleting", !.deleted = CommentsOfTasks(q.collected)])
    /\ UNCHANGED <<boards, tasks, comments, nextBoardId, nextTaskId, nextCommentId, last,
                   setWhileMember>>

\* rows committed meanwhile that still reference a row the cascade deletes: the
\* foreign keys are checked when the transaction commits
Referencing(q) ==
    {c \in DOMAIN comments : comments[c].task \in q.collected} \ q.deleted

\* task.delete(), the task row and the commit: all of the cascade or nothing
DeleteTaskCommit(w) ==
    LET q == inflight[w] IN
    /\ q.op = "deleteTask" /\ q.pc = "deleting"
    /\ IF Referencing(q) # {}
          THEN /\ Done(w, "ServerError")
               /\ UNCHANGED <<tasks, comments, setWhileMember>>
          ELSE /\ tasks' = Drop(tasks, q.collected)
               /\ comments' = Drop(comments, q.deleted)
               /\ setWhileMember' = Drop(setWhileMember, q.collected)
               /\ Done(w, "Ok")
    /\ UNCHANGED <<boards, nextBoardId, nextTaskId, nextCommentId, last>>

\* BoardViewSet.destroy up to the owner test: get_object loads the board, the
\* requester is its owner
DeleteBoardCheck(w, u, b) ==
    /\ inflight[w].pc = "idle"
    /\ BoardViewSet_destroy(u, b).resp = Ok
    /\ Proceed(w, [Idle EXCEPT !.op = "deleteBoard", !.pc = "checked", !.who = u, !.id = b])
    /\ UNCHANGED <<boards, tasks, comments, nextBoardId, nextTaskId, nextCommentId, last,
                   setWhileMember>>

\* board.delete(): the tasks of the board are selected for the cascade
DeleteBoardCollect(w) ==
    LET q == inflight[w] IN
    /\ q.op = "deleteBoard" /\ q.pc = "checked"
    /\ Proceed(w, [q EXCEPT !.pc = "collected",
                            !.collected = {t \in DOMAIN tasks : tasks[t].board = q.id}])
    /\ UNCHANGED <<boards, tasks, comments, nextBoardId, nextTaskId, nextCommentId, last,
                   setWhileMember>>

\* board.delete(), the task rows, the board row and the commit
DeleteBoardCommit(w) ==
    LET q == inflight[w] IN
    /\ q.op = "deleteBoard" /\ q.pc = "deleting"
    /\ IF \/ Referencing(q) # {}
          \/ {t \in DOMAIN tasks : tasks[t].board = q.id} \ q.collected # {}
          THEN /\ Done(w, "ServerError")
               /\ UNCHANGED <<boards, tasks, comments, setWhileMember>>
          ELSE /\ boards' = Drop(boards, {q.id})
               /\ tasks' = Drop(tasks, q.collected)
               /\ comments' = Drop(comments, q.deleted)
               /\ setWhileMember' = Drop(setWhileMember, q.collected)
               /\ Done(w, "Ok")
    /\ UNCHANGED <<nextBoardId, nextTaskId, nextCommentId, last>>

\* ---------------------------------------------------------------- specifications
AssigneeInputs == InputIds \cup {None, Absent}

\* every handler with every input
Next ==
    \/ \E u \in Users, title \in TitleInputs, m \in MemberInputs : CreateBoard(u, title, m)
    \/ \E u \in Users, b \in BoardIds, title \in TitleInputs, m \in MemberInputs,
          partial \in BOOLEAN : UpdateBoard(u, b, title, m, partial)
    \/ \E u \in Users, b \in BoardIds : GetBoardDetail(u, b)
    \/ \E u \in Users, b \in BoardIds : DeleteBoard(u, b)
    \/ \E u \in Users, b \in BoardIds, title \in TitleInputs, a, r \in AssigneeInputs :
          CreateTask(u, b, title, a, r)
    \/ \E u \in Users, t \in TaskIds, title \in TitleInputs, a, r \in AssigneeInputs :
          UpdateTask(u, t, title, a, r)
    \/ \E u \in Users, t \in TaskIds : DeleteTask(u, t)
    \/ \E u \in Users, t \in TaskIds, content \in Contents : AddComment(u, t, content)
    \/ \E u \in Users, t \in TaskIds, c \in CommentIds : DeleteComment(u, t, c)

Spec == Init /\ [][Next]_vars

\* the Board Registry alone, every input of its handlers (a PUT differs from a
\* PATCH only where the title is missing)
NextBoards ==
    \/ \E u \in Users, title \in TitleInputs, m \in MemberInputs : CreateBoard(u, title, m)
    \/ \E u \in Users, b \in BoardIds, title \in TitleInputs, m \in MemberInputs :
          UpdateBoard(u, b, title, m, TRUE)
    \/ \E u \in Users, b \in BoardIds, m \in MemberInputs :
          UpdateBoard(u, b, TitleAbsent, m, FALSE)
    \/ \E u \in Users, b \in BoardIds : GetBoardDetail(u, b)
    \/ \E u \in Users, b \in BoardIds : DeleteBoard(u, b)

SpecBoards == Init /\ [][NextBoards]_vars

\* boards with tasks and comments below them: creation with fixed field values,
\* every requester and every target for the deletions
NextCascade ==
    \/ \E u \in Users, m \in {NoMembers, AllUsers} : CreateBoard(u, "T1", m)
    \/ \E u \in Users, b \in BoardIds : GetBoardDetail(u, b)
    \/ \E u \in Users, b \in BoardIds : DeleteBoard(u, b)
    \/ \E u \in Users, b \in BoardIds : CreateTask(u, b, "T1", Absent, Absent)
    \/ \E u \in Users, t \in TaskIds : AddComment(u, t, "c")

SpecCascade == Init /\ [][NextCascade]_vars

\* the Task Store on few boards: membership changes, every input of createTask
\* and updateTask
NextTasks ==
    \/ \E u \in Users, m \in {NoMembers, AllUsers} :
          nextBoardId <= TaskSpecBoards /\ CreateBoard(u, "T1", m)
    \/ \E u \in Users, b \in 1..TaskSpecBoards, s \in (SUBSET Users) \ {{}} :
          UpdateBoard(u, b, TitleAbsent, [given |-> TRUE, ids |-> s], TRUE)
    \/ \E u \in Users, b \in 1..(TaskSpecBoards + 1), title \in {"T1", ""},
          a, r \in AssigneeInputs :
          nextTaskId <= TaskSpecTasks /\ CreateTask(u, b, title, a, r)
    \/ \E u \in Users, t \in 1..(TaskSpecTasks + 1), title \in {TitleAbsent, "T2", ""},
          a, r \in AssigneeInputs : UpdateTask(u, t, title, a, r)
    \/ \E u \in Users, t \in 1..TaskSpecTasks : DeleteTask(u, t)

SpecTasks == Init /\ [][NextTasks]_vars

\* the Comment Log on one board: membership changes, tasks without assignee,
\* every requester and every target for the task and comment handlers
NextComments ==
    \/ \E u \in Users, title \in {"T1", ""}, m \in {NoMembers, AllUsers} :
          nextBoardId <= CommentSpecBoards /\ CreateBoard(u, title, m)
    \/ \E u \in Users, b \in 1..(CommentSpecBoards + 1),
          s \in ((SUBSET Users) \ {{}}) \cup {{0}} :
          UpdateBoard(u, b, TitleAbsent, [given |-> TRUE, ids |-> s], TRUE)
    \/ \E u \in Users, b \in 1..(CommentSpecBoards + 1) : GetBoardDetail(u, b)
    \/ \E u \in Users, b \in 1..(CommentSpecBoards + 1) : DeleteBoard(u, b)
    \/ \E u \in Users, b \in 1..(CommentSpecBoards + 1), title \in {"T1", ""} :
          CreateTask(u, b, title, Absent, Absent)
    \/ \E u \in Users, t \in TaskIds, title \in {"T1", ""} :
          UpdateTask(u, t, title, Absent, Absent)
    \/ \E u \in Users, t \in TaskIds : DeleteTask(u, t)
    \/ \E u \in Users, t \in TaskIds, content \in Contents : AddComment(u, t, content)
    \/ \E u \in Users, t \in TaskIds : ListComments(u, t)
    \/ \E u \in Users, t \in TaskIds, c \in CommentIds : DeleteComment(u, t, c)

SpecComments == Init /\ [][NextComments]_vars

\* comments of the tasks of one board whose members are all users: every clock
\* reading for a new comment, every deletion, every listing
NextOrdering ==
    \/ \E u \in Users : nextBoardId <= CommentSpecBoards /\ CreateBoard(u, "T1", AllUsers)
    \/ \E u \in Users, b \in 1..CommentSpecBoards : CreateTask(u, b, "T1", Absent, Absent)
    \/ \E u \in Users, t \in TaskIds, now \in Times :
          nextCommentId <= OrderSpecComments /\ AddCommentAt(u, t, "c", now)
    \/ \E u \in Users, t \in TaskIds, c \in 1..OrderSpecComments : DeleteComment(u, t, c)
    \/ \E u \in Users, t \in TaskIds : ListComments(u, t)

SpecOrdering == Init /\ [][NextOrdering]_vars

\* tasks with an assignee and another user as reviewer on the boards of user 1,
\* membership changes, and the two queries by every user
NextQueries ==
    \/ CreateBoard(1, "T1", AllUsers)
    \/ \E u \in Users, b \in BoardIds, s \in (SUBSET Users) \ {{}} :
          UpdateBoard(u, b, TitleAbsent, [given |-> TRUE, ids |-> s], TRUE)
    \/ \E u \in Users, b \in BoardIds, a, r \in Users :
          a # r /\ CreateTask(u, b, "T1", a, r)
    \/ \E u \in Users, b \in BoardIds : CreateTask(u, b, "T1", Absent, Absent)
    \/ \E u \in Users, t \in TaskIds : DeleteTask(u, t)
    \/ \E u \in Users : AssignedToMe(u)
    \/ \E u \in Users : Reviewing(u)

SpecQueries == Init /\ [][NextQueries]_vars

\* one board whose membership changes while a createTask that names an assignee
\* is in progress on the first worker and an updateTask that names a reviewer
\* on the last
NextRace ==
    \/ nextBoardId <= TaskSpecBoards /\ CreateBoard(1, "T1", AllUsers)
    \/ \E u \in Users, b \in 1..TaskSpecBoards, s \in (SUBSET Users) \ {{}} :
          UpdateBoard(u, b, TitleAbsent, [given |-> TRUE, ids |-> s], TRUE)
    \/ \E u \in Users, b \in 1..TaskSpecBoards, a \in Users :
          /\ nextTaskId + Pending("createTask") <= TaskSpecTasks
          /\ CreateTaskCheck(1, u, b, "T1", a, Absent)
    \/ \E w \in Workers : CreateTaskInsert(w)
    \/ \E w \in Workers : CreateTaskSave(w)
    \/ \E u \in Users, t \in 1..TaskSpecTasks, r \in Users \cup {None} :
          UpdateTaskCheck(NumWorkers, u, t, TitleAbsent, Absent, r)
    \/ \E w \in Workers : UpdateTaskSave(w)
    \/ \E w \in Workers : Respond(w)

SpecRace == Init /\ [][NextRace]_vars

\* createBoard and createTask statement by statement on the first worker,
\* updateBoard on the last, and reads of the board in between
NextSteps ==
    \/ \E u \in Users, m \in {NoMembers, AllUsers} :
          /\ nextBoardId + Pending("createBoard") <= TaskSpecBoards
          /\ CreateBoardValidate(1, u, "T1", m)
    \/ \E w \in Workers : CreateBoardInsert(w)
    \/ \E w \in Workers : CreateBoardSetMembers(w)
    \/ \E w \in Workers : CreateBoardAddOwner(w)
    \/ \E u \in Users, b \in 1..TaskSpecBoards, title \in {"T2", TitleAbsent},
          s \in SUBSET Users :
          UpdateBoardCheck(NumWorkers, u, b, title, [given |-> TRUE, ids |-> s], TRUE)
    \/ \E w \in Workers : UpdateBoardSave(w)
    \/ \E w \in Workers : UpdateBoardSetMembers(w)
    \/ \E u \in Users, b \in 1..TaskSpecBoards, a \in Users \cup {Absent} :
          /\ nextTaskId + Pending("createTask") <= TaskSpecTasks
          /\ CreateTaskCheck(1, u, b, "T1", a, Absent)
    \/ \E w \in Workers : CreateTaskInsert(w)
    \/ \E w \in Workers : CreateTaskSave(w)
    \/ \E u \in Users, b \in 1..TaskSpecBoards : GetBoardDetail(u, b)
    \/ \E w \in Workers : Respond(w)

SpecSteps == Init /\ [][NextSteps]_vars

\* the tasks of one board: addComment statement by statement on the first
\* worker, deleteTask and deleteBoard on the last
NextLate ==
    \/ \E m \in {NoMembers, AllUsers} :
          nextBoardId <= TaskSpecBoards /\ CreateBoard(1, "T1", m)
    \/ \E u \in Users, b \in 1..TaskSpecBoards : CreateTask(u, b, "T1", Absent, Absent)
    \/ \E u \in Users, t \in TaskIds, content \in Contents :
          AddCommentGetObject(1, u, t, content)
    \/ \E w \in Workers : AddCommentCheckMember(w)
    \/ \E w \in Workers : AddCommentSave(w, nextCommentId)
    \/ \E u \in Users, t \in TaskIds : DeleteTaskCheck(NumWorkers, u, t)
    \/ \E u \in Users, b \in 1..TaskSpecBoards : DeleteBoardCheck(NumWorkers, u, b)
    \/ \E w \in Workers : DeleteBoardCollect(w)
    \/ \E w \in Workers : DeleteComments(w)
    \/ \E w \in Workers : DeleteTaskCommit(w)
    \/ \E w \in Workers : DeleteBoardCommit(w)
    \/ \E w \in Workers : Respond(w)

SpecLate == Init /\ [][NextLate]_vars

\* the Board Registry with valid titles: every member list over the users,
\* every requester and target, and the list of every user
NextListing ==
    \/ \E u \in Users, m \in {NoMembers} \cup {[given |-> TRUE, ids |-> s] : s \in SUBSET Users} :
          CreateBoard(u, "T1", m)
    \/ \E u \in Users, b \in BoardIds, s \in SUBSET Users :
          UpdateBoard(u, b, TitleAbsent, [given |-> TRUE, ids |-> s], TRUE)
    \/ \E u \in Users, b \in BoardIds : DeleteBoard(u, b)
    \/ \E u \in Users : ListBoards(u)

SpecListing == Init /\ [][NextListing]_vars

\* request bodies with the keys the serializers do not declare
TaskBodies ==
    [board : BoardIds \cup {Absent}, title : {"T1"}, assignee_id : {Absent},
     reviewer_id : {Absent}, created_by : Users \cup {Absent}]
CommentBodies == [content : {"c"}, task : TaskIds \cup {Absent}, author : Users \cup {Absent}]

\* tasks and comments on the boards of user 1 with all users as members, with
\* request bodies that name another board, creator, task or author
NextSetOnce ==
    \/ CreateBoard(1, "T1", AllUsers)
    \/ \E u \in Users, data \in TaskBodies : data.board # Absent /\ CreateTaskBody(u, data)
    \/ \E u \in Users, t \in TaskIds, data \in TaskBodies : UpdateTaskBody(u, t, data)
    \/ \E u \in Users, t \in TaskIds : DeleteTask(u, t)
    \/ \E u \in Users, t \in TaskIds, data \in CommentBodies : AddCommentBody(u, t, data)
    \/ \E u \in Users, t \in TaskIds, c \in CommentIds : DeleteComment(u, t, c)

SpecSetOnce == Init /\ [][NextSetOnce]_vars

\* the boards of user 1 with tasks that name an assignee and a reviewer, and
\* their comments, while every user changes titles and members
NextStale ==
    \/ CreateBoard(1, "T1", AllUsers)
    \/ \E u \in Users, b \in BoardIds, title \in {"T2", TitleAbsent}, s \in SUBSET Users :
          UpdateBoard(u, b, title, [given |-> TRUE, ids |-> s], TRUE)
    \/ \E u \in Users, b \in BoardIds, a, r \in Users :
          nextTaskId <= StaleSpecRows /\ CreateTask(u, b, "T1", a, r)
    \/ \E u \in Users, t \in TaskIds :
          nextCommentId <= StaleSpecRows /\ AddComment(u, t, "c")

SpecStale == Init /\ [][NextStale]_vars

\* the boards of user 1: createTask, updateTask and addComment statement by
\* statement on the first worker, deleteTask and deleteBoard on the last
NextIntegrity ==
    \/ CreateBoard(1, "T1", AllUsers)
    \/ \E u \in Users, b \in BoardIds : CreateTaskCheck(1, u, b, "T1", Absent, Absent)
    \/ \E w \in Workers : CreateTaskInsert(w)
    \/ \E w \in Workers : CreateTaskSave(w)
    \/ \E u \in Users, t \in TaskIds : UpdateTaskCheck(1, u, t, "T2", Absent, Absent)
    \/ \E w \in Workers : UpdateTaskSave(w)
    \/ \E u \in Users, t \in TaskIds : AddCommentGetObject(1, u, t, "c")
    \/ \E w \in Workers : AddCommentCheckMember(w)
    \/ \E w \in Workers : AddCommentSave(w, nextCommentId)
    \/ \E u \in Users, t \in TaskIds : DeleteTaskCheck(NumWorkers, u, t)
    \/ \E u \in Users, b \in BoardIds : DeleteBoardCheck(NumWorkers, u, b)
    \/ \E w \in Workers : DeleteBoardCollect(w)
    \/ \E w \in Workers : DeleteComments(w)
    \/ \E w \in Workers : DeleteTaskCommit(w)
    \/ \E w \in Workers : DeleteBoardCommit(w)
    \/ \E w \in Workers : Respond(w)

SpecIntegrity == Init /\ [][NextIntegrity]_vars

\* ---------------------------------------------------------------- properties
\* C1: every existing board's owner is one of the board's members, in every
\* reachable state, also right after an updateBoard whose list omits the owner.
OwnerIsMember ==
    \A b \in DOMAIN boards : boards[b].owner \in boards[b].members

\* C2: in every reachable state, getBoardDetail and updateBoard on an existing
\* board by a requester who is not in the board's members are Forbidden and
\* leave the board unchanged.
NonMemberForbidden ==
    \A b \in DOMAIN boards, u \in Users :
        u \notin boards[b].members =>
            /\ BoardViewSet_retrieve(u, b) = Forbidden
            /\ \A title \in TitleInputs, m \in MemberInputs, partial \in BOOLEAN :
                  /\ BoardViewSet_update(u, b, title, m, partial).resp = Forbidden
                  /\ BoardViewSet_update(u, b, title, m, partial).boards = boards

\* C3: deleteBoard on an existing board removes it if and only if the requester
\* is the board's owner; any other requester, member or not, gets Forbidden and
\* the board, its tasks and their comments all remain.
DeleteBoardOwnerOnly ==
    \A b \in DOMAIN boards, u \in Users :
        LET r == BoardViewSet_destroy(u, b) IN
        /\ (b \notin DOMAIN r.boards) <=> (u = boards[b].owner)
        /\ u = boards[b].owner => r.resp = Ok
        /\ u # boards[b].owner =>
              /\ r.resp = Forbidden
              /\ r.boards = boards
              /\ r.tasks = tasks
              /\ r.comments = comments

\* a member who is not the owner was refused, and the board still has its tasks
\* and their comments
DeleteBoardRefused ==
    /\ last.op = "deleteBoard"
    /\ last.status = "Forbidden"
    /\ last.id \in DOMAIN boards
    /\ last.who \in boards[last.id].members
    /\ last.who # boards[last.id].owner
    /\ CommentsOfTasks(TasksOfBoard(last.id)) # {}

\* the step of a successful deleteBoard
DeleteBoardStep ==
    (last'.op = "deleteBoard" /\ last'.status = "Ok") =>
        LET X == last'.id
            kept == {t \in DOMAIN tasks : tasks[t].board # X}
        IN  /\ boards' = Drop(boards, {X})
            /\ tasks' = [t \in kept |-> tasks[t]]
            /\ comments' = [c \in {d \in DOMAIN comments : comments[d].task \in kept}
                               |-> comments[c]]

\* a board id that was given out and is gone stays gone
DeletedStaysDeleted ==
    \A b \in BoardIds :
        (b < nextBoardId /\ b \notin DOMAIN boards) =>
            /\ b \notin DOMAIN boards'
            /\ \A u \in Users : BoardViewSet_retrieve(u, b)' = NotFound

\* C4: a successful deleteBoard(X) leaves no task of X and no comment of a task
\* of X, leaves the tasks and comments of the other boards as they were, and
\* from then on X stays absent: getBoardDetail(X) is NotFound for everyone.
DeleteBoardCascades == [][DeleteBoardStep /\ DeletedStaysDeleted]_vars

\* a board was deleted together with a task and its comment, while the task and
\* the comment of another board are still there, and a later read was NotFound
BoardDeletedWithTasks ==
    /\ last.op = "getBoardDetail"
    /\ last.status = "NotFound"
    /\ last.id < nextBoardId
    /\ Cardinality(DOMAIN boards) = 1
    /\ nextTaskId = 3 /\ Cardinality(DOMAIN tasks) = 1
    /\ nextCommentId = 3 /\ Cardinality(DOMAIN comments) = 1

\* C5: a successful createBoard yields a board owned by the requester whose
\* members are exactly the requested ids plus the owner, for every list of
\* existing users, the empty one and those omitting the owner included.
CreateBoardMembers ==
    \A u \in Users, title \in Titles, m \in MemberInputs :
        m.ids \subseteq Users =>
            LET r == BoardViewSet_create(u, title, m) IN
            /\ r.resp = Ok
            /\ DOMAIN r.boards = (DOMAIN boards) \cup {nextBoardId}
            /\ r.boards[nextBoardId] =
                   [title |-> title, owner |-> u, members |-> m.ids \cup {u}]

\* a board was just created with a list, and it has its owner and another member
BoardCreatedWithList ==
    /\ last.op = "createBoard"
    /\ last.status = "Ok"
    /\ last.members = "list"
    /\ last.id \in DOMAIN boards
    /\ boards[last.id].owner = last.who
    /\ boards[last.id].members # {last.who}

\* the step of an updateBoard that carries no member id
EmptyListStep ==
    (/\ last'.op = "updateBoard"
     /\ last'.members \in {"absent", "empty"}
     /\ last'.id \in DOMAIN boards) =>
        /\ last'.id \in DOMAIN boards'
        /\ boards'[last'.id].members = boards[last'.id].members
        /\ boards'[last'.id].owner = boards[last'.id].owner
        /\ \A b \in (DOMAIN boards) \ {last'.id} : boards'[b] = boards[b]
        /\ DOMAIN boards' = DOMAIN boards

\* C6: an updateBoard without a members list or with an empty one leaves the
\* board's member set as it was; only the title may change.
EmptyListKeepsMembers == [][EmptyListStep]_vars

\* an update with an empty list succeeded on a board that still has two members
EmptyListUpdated ==
    /\ last.op = "updateBoard"
    /\ last.status = "Ok"
    /\ last.members = "empty"
    /\ Cardinality(boards[last.id].members) >= 2

\* C7: createBoard or updateBoard with a members list holding an id that
\* resolves to no user changes nothing; the requester who passes existence and
\* permission gets a ValidationError on "members" that reports every invalid id.
InvalidMembersRejected ==
    \A u \in Users, title \in TitleInputs, m \in MemberInputs :
        (m.ids \ Users # {}) =>
            /\ LET r == BoardViewSet_create(u, title, m) IN
                  /\ r.resp.status = "ValidationError"
                  /\ "members" \in r.resp.fields
                  /\ r.resp.invalid = m.ids \ Users
                  /\ r.boards = boards
            /\ \A b \in BoardIds, partial \in BOOLEAN :
                  LET r == BoardViewSet_update(u, b, title, m, partial) IN
                  /\ r.boards = boards
                  /\ r.resp.status # "Ok"
                  /\ (b \in DOMAIN boards /\ IsBoardMember(u, b)) =>
                        /\ r.resp.status = "ValidationError"
                        /\ "members" \in r.resp.fields
                        /\ r.resp.invalid = m.ids \ Users

\* an update of an existing board was refused with two invalid ids reported
TwoInvalidIdsReported ==
    /\ last.op = "updateBoard"
    /\ last.status = "ValidationError"
    /\ last.id \in DOMAIN boards
    /\ Cardinality(last.invalid) = 2

\* C8: createTask and updateTask check existence, then authorization, then the
\* fields: a missing board / task is NotFound for every requester, an existing
\* one is Forbidden for a requester outside the board's members whatever the
\* fields are, and only a member ever gets a ValidationError.
ChecksInOrder ==
    \A u \in Users, title \in TitleInputs, a \in AssigneeInputs, r \in AssigneeInputs :
        /\ \A b \in BoardIds :
              LET res == TaskViewSet_create(u, b, title, a, r) IN
              /\ b \notin DOMAIN boards => res.resp = NotFound
              /\ (b \in DOMAIN boards /\ u \notin boards[b].members) => res.resp = Forbidden
              /\ res.resp.status = "ValidationError" =>
                    (b \in DOMAIN boards /\ u \in boards[b].members)
        /\ \A t \in TaskIds :
              LET res == TaskViewSet_partial_update(u, t, title, a, r) IN
              /\ t \notin DOMAIN tasks => res.resp = NotFound
              /\ (t \in DOMAIN tasks /\ u \notin boards[tasks[t].board].members) =>
                    res.resp = Forbidden
              /\ res.resp.status = "ValidationError" =>
                    (t \in DOMAIN tasks /\ u \in boards[tasks[t].board].members)

\* an update of an existing task was refused to a requester who is outside the
\* members of the task's board
UpdateTaskRefused ==
    /\ last.op = "updateTask"
    /\ last.status = "Forbidden"
    /\ last.id \in DOMAIN tasks
    /\ last.who \notin boards[tasks[last.id].board].members

\* an id is supplied: the key is present and its value is not null
Supplied(x) == x \notin {Absent, None}

\* C9: a createTask or updateTask by a member, otherwise valid, that supplies an
\* assignee or reviewer id which is not a current member of the board fails
\* with a ValidationError on that field and changes no task.
NonMemberAssigneeRejected ==
    \A u \in Users, a \in AssigneeInputs, r \in AssigneeInputs :
        LET bad(b) == {f \in {"assignee_id", "reviewer_id"} :
                          \/ f = "assignee_id" /\ Supplied(a) /\ a \notin boards[b].members
                          \/ f = "reviewer_id" /\ Supplied(r) /\ r \notin boards[b].members}
        IN
        /\ \A b \in DOMAIN boards :
              (u \in boards[b].members /\ bad(b) # {}) =>
                  LET res == TaskViewSet_create(u, b, "T1", a, r) IN
                  /\ res.resp.status = "ValidationError"
                  /\ res.resp.fields # {} /\ res.resp.fields \subseteq bad(b)
                  /\ res.tasks = tasks
        /\ \A t \in DOMAIN tasks :
              (u \in boards[tasks[t].board].members /\ bad(tasks[t].board) # {}) =>
                  LET res == TaskViewSet_partial_update(u, t, TitleAbsent, a, r) IN
                  /\ res.resp.status = "ValidationError"
                  /\ res.resp.fields # {} /\ res.resp.fields \subseteq bad(tasks[t].board)
                  /\ res.tasks = tasks

\* C10: whenever a task's assignee (reviewer) is set to a user, that user was a
\* member of the task's board in the state the createTask / updateTask that
\* wrote the field was applied to.
AssigneeWasMember ==
    \A t \in DOMAIN tasks :
        /\ tasks[t].assignee # None => setWhileMember[t].assignee
        /\ tasks[t].reviewer # None => setWhileMember[t].reviewer

\* an update gave a task an assignee and a reviewer
AssigneeAndReviewerSet ==
    /\ last.op = "updateTask"
    /\ last.status = "Ok"
    /\ last.id \in DOMAIN tasks
    /\ tasks[last.id].assignee \in Users
    /\ tasks[last.id].reviewer \in Users
    /\ tasks[last.id].assignee # tasks[last.id].reviewer

\* C12: a successful updateTask applies exactly the fields the request carries:
\* a field present with a value is set to it, assignee / reviewer present as null
\* is cleared, every absent field keeps its value; no other task changes.
UpdateAppliesPresentFields ==
    \A u \in Users, t \in DOMAIN tasks, title \in TitleInputs,
       a \in AssigneeInputs, r \in AssigneeInputs :
        LET res == TaskViewSet_partial_update(u, t, title, a, r) IN
        res.resp = Ok =>
            /\ DOMAIN res.tasks = DOMAIN tasks
            /\ \A o \in (DOMAIN tasks) \ {t} : res.tasks[o] = tasks[o]
            /\ res.tasks[t].board = tasks[t].board
            /\ res.tasks[t].created_by = tasks[t].created_by
            /\ res.tasks[t].title = IF title = TitleAbsent THEN tasks[t].title ELSE title
            /\ res.tasks[t].assignee =
                  CASE a = Absent -> tasks[t].assignee [] a = None -> None [] OTHER -> a
            /\ res.tasks[t].reviewer =
                  CASE r = Absent -> tasks[t].reviewer [] r = None -> None [] OTHER -> r

\* an update succeeded and the task still has the title it was created with
\* (updates only ever carry another title), an assignee and no reviewer
UpdateKeptAbsentFields ==
    /\ last.op = "updateTask"
    /\ last.status = "Ok"
    /\ last.id \in DOMAIN tasks
    /\ tasks[last.id].title = "T1"
    /\ tasks[last.id].assignee \in Users
    /\ tasks[last.id].reviewer = None

\* C13: deleteTask on an existing task removes it if and only if the requester
\* is the task's creator or the owner of the task's board; any other requester,
\* an ordinary member included, gets Forbidden and the task and its comments
\* remain.
DeleteTaskCreatorOrOwner ==
    \A t \in DOMAIN tasks, u \in Users :
        LET res == TaskViewSet_destroy(u, t)
            allowed == u = tasks[t].created_by \/ u = boards[tasks[t].board].owner
        IN  /\ (t \notin DOMAIN res.tasks) <=> allowed
            /\ allowed => res.resp = Ok
            /\ ~allowed =>
                  /\ res.resp = Forbidden
                  /\ res.tasks = tasks
                  /\ res.comments = comments

\* a member who is neither creator nor owner was refused, and the task still has
\* a comment
DeleteTaskRefused ==
    /\ last.op = "deleteTask"
    /\ last.status = "Forbidden"
    /\ last.id \in DOMAIN tasks
    /\ last.who \in boards[tasks[last.id].board].members
    /\ CommentsOfTasks({last.id}) # {}

\* C14: in every reachable state updateTask, listComments and addComment on an
\* existing task succeed only for a requester in the members of the task's
\* board at that moment; everyone else, whatever they were earlier, gets
\* Forbidden, no task field changes and no comment is created.
TaskAccessMembersOnly ==
    \A t \in DOMAIN tasks, u \in Users :
        LET member == u \in boards[tasks[t].board].members IN
        /\ \A title \in TitleInputs, a \in AssigneeInputs, r \in AssigneeInputs :
              LET res == TaskViewSet_partial_update(u, t, title, a, r) IN
              /\ res.resp.status = "Ok" => member
              /\ ~member => (res.resp = Forbidden /\ res.tasks = tasks)
        /\ TaskViewSet_comments_get(u, t).resp.status = "Ok" => member
        /\ ~member => TaskViewSet_comments_get(u, t).resp = Forbidden
        /\ \A content \in Contents, now \in Times :
              LET res == TaskViewSet_comments_post(u, t, content, now) IN
              /\ res.resp.status = "Ok" => member
              /\ ~member => (res.resp = Forbidden /\ res.comments = comments)

\* the board's owner, no longer among the members, was refused an addComment
FormerMemberRefused ==
    /\ last.op = "addComment"
    /\ last.status = "Forbidden"
    /\ last.id \in DOMAIN tasks
    /\ last.who = boards[tasks[last.id].board].owner
    /\ last.who \notin boards[tasks[last.id].board].members

\* C16: deleteComment answers NotFound when the comment does not exist, NotFound
\* when it exists under another task than the one named, Forbidden when the
\* requester is not its author, and otherwise removes that comment and no
\* other; a non-author asking under the wrong task gets NotFound.
DeleteCommentDecision ==
    \A u \in Users, t \in TaskIds, c \in CommentIds :
        LET res == TaskViewSet_delete_comment(u, t, c) IN
        IF c \notin DOMAIN comments
            THEN res.resp = NotFound /\ res.comments = comments
        ELSE IF comments[c].task # t
            THEN res.resp = NotFound /\ res.comments = comments
        ELSE IF comments[c].author # u
            THEN res.resp = Forbidden /\ res.comments = comments
        ELSE /\ res.resp = Ok
             /\ DOMAIN res.comments = (DOMAIN comments) \ {c}
             /\ \A d \in DOMAIN res.comments : res.comments[d] = comments[d]

\* a non-author asked for an existing comment under another existing task and
\* got NotFound
WrongTaskNotFound ==
    /\ last.op = "deleteComment"
    /\ last.status = "NotFound"
    /\ last.id \in DOMAIN comments
    /\ last.task \in DOMAIN tasks
    /\ comments[last.id].task # last.task
    /\ comments[last.id].author # last.who

\* the step of a request answered ValidationError, Forbidden or NotFound
ErrorStep ==
    last'.status \in {"ValidationError", "Forbidden", "NotFound"} =>
        /\ boards' = boards
        /\ tasks' = tasks
        /\ comments' = comments

\* C17: every operation answered with ValidationError, Forbidden or NotFound
\* leaves all boards, tasks and comments as they were; deleting a comment that
\* does not exist is NotFound and changes nothing, each time it is repeated.
ErrorsChangeNothing == [][ErrorStep]_vars

\* a comment that was deleted before was asked to be deleted again, while
\* another comment exists
DeleteMissingComment ==
    /\ last.op = "deleteComment"
    /\ last.status = "NotFound"
    /\ last.id < nextCommentId
    /\ last.id \notin DOMAIN comments
    /\ last.task \in DOMAIN tasks
    /\ comments # <<>>

QueriesByAssignee ==
    /\ \A u \in Users, t \in TaskIds :
          /\ t \in assigned_to_me(u) <=> (t \in DOMAIN tasks /\ tasks[t].assignee = u)
          /\ t \in reviewing(u) <=> (t \in DOMAIN tasks /\ tasks[t].reviewer = u)
    /\ last.op = "assignedToMe" =>
          last.body = {t \in DOMAIN tasks : tasks[t].assignee = last.who}
    /\ last.op = "reviewing" =>
          last.body = {t \in DOMAIN tasks : tasks[t].reviewer = last.who}

\* the query returned tasks of two boards to a user who is no member of one of
\* them
AssignedAcrossBoards ==
    /\ last.op = "assignedToMe"
    /\ \E t1, t2 \in last.body :
          /\ tasks[t1].board # tasks[t2].board
          /\ last.who \notin boards[tasks[t1].board].members
          /\ last.who \in boards[tasks[t2].board].members

\* the step in which a createTask or updateTask writes the assignee and the
\* reviewer it was asked to set: both are members of the board at that step
WriteStep ==
    \A w \in Workers :
        LET q == inflight[w] IN
        (/\ q.op \in {"createTask", "updateTask"}
         /\ q.pc = IF q.op = "createTask" THEN "created" ELSE "validated"
         /\ inflight'[w].pc = "done"
         /\ inflight'[w].status = "Ok") =>
            /\ q.a \in Users => q.a \in boards[q.instance.board].members
            /\ q.r \in Users => q.r \in boards[q.instance.board].members

\* C11: however an updateBoard that removes user u from the members of board b
\* interleaves with a createTask / updateTask on b that assigns u, the
\* membership change does not come between the membership check and the write:
\* no assignee or reviewer is written after the user was removed.
AssigneeWrittenWhileMember == [][WriteStep]_vars

\* C18: createBoard, updateBoard and createTask each take effect in one step:
\* while one of them is in progress, no other request finds a board that exists
\* without its owner and its requested members, a board whose new title is
\* saved while its members are not yet replaced, or a task that exists without
\* the assignee and reviewer it was created with.
NoPartialEffect ==
    \A w \in Workers :
        LET q == inflight[w] IN
        /\ (/\ q.op = "createBoard"
            /\ q.pc \in {"created", "members_set"}
            /\ q.id \in DOMAIN boards) =>
               boards[q.id].members = q.members \cup {q.who}
        /\ (/\ q.op = "updateBoard"
            /\ q.pc = "saved"
            /\ q.title # TitleAbsent
            /\ q.id \in DOMAIN boards) =>
               boards[q.id].members = q.members
        /\ (/\ q.op = "createTask"
            /\ q.pc = "created"
            /\ q.id \in DOMAIN tasks) =>
               /\ Truthy(q.a) => tasks[q.id].assignee = q.a
               /\ Truthy(q.r) => tasks[q.id].reviewer = q.r

ListStep ==
    /\ last'.op = "listBoards" =>
           last'.body = {b \in DOMAIN boards' : last'.who \in boards'[b].members}
    /\ (last'.op = "createBoard" /\ last'.status = "Ok") =>
           \A u \in Users :
              last'.id \in BoardViewSet_get_queryset(u)' <=>
                  (u = last'.who \/ u \in boards'[last'.id].members)
    /\ (last'.op = "updateBoard" /\ last'.status = "Ok") =>
           \A u \in Users :
              /\ last'.id \in BoardViewSet_get_queryset(u)' <=> u \in boards'[last'.id].members
              /\ (u \in boards[last'.id].members /\ u \notin boards'[last'.id].members) =>
                     last'.id \notin BoardViewSet_get_queryset(u)'
    /\ (last'.op = "deleteBoard" /\ last'.status = "Ok") =>
           \A u \in Users : last'.id \notin BoardViewSet_get_queryset(u)'

\* C21: listBoardsForUser(u) returns exactly the existing boards whose members
\* contain u: a board is in the list of every user createBoard / updateBoard
\* added, and leaves a user's list with the updateBoard that drops the user or
\* with the deletion of the board.
ListBoardsExact == [][ListStep]_vars

\* a user lists the boards after an updateBoard dropped that user from a board
\* the user owns: the list holds the other board only
ListedAfterDrop ==
    /\ last.op = "listBoards"
    /\ last.body # {}
    /\ \E b \in DOMAIN boards : boards[b].owner = last.who /\ b \notin last.body

\* the set-once fields over one step: an existing task keeps board and
\* created_by, a new task has the requester of its createTask as created_by and
\* the requested board; an existing comment keeps task, author and content, a
\* new comment has the requester of its addComment as author and the addressed
\* task
SetOnceStep ==
    /\ \A t \in (DOMAIN tasks) \cap (DOMAIN tasks') :
          /\ tasks'[t].board = tasks[t].board
          /\ tasks'[t].created_by = tasks[t].created_by
    /\ \A t \in (DOMAIN tasks') \ (DOMAIN tasks) :
          /\ last'.op = "createTask"
          /\ tasks'[t].created_by = last'.who
          /\ tasks'[t].board = last'.id
    /\ \A c \in (DOMAIN comments) \cap (DOMAIN comments') :
          /\ comments'[c].task = comments[c].task
          /\ comments'[c].author = comments[c].author
          /\ comments'[c].content = comments[c].content
    /\ \A c \in (DOMAIN comments') \ (DOMAIN comments) :
          /\ last'.op = "addComment"
          /\ comments'[c].author = last'.who
          /\ comments'[c].task = last'.id

\* C22: set-once fields never change: a task keeps the board and the
\* created_by of its creation (created_by is the requester of the createTask,
\* not a value the client sent) through every updateTask, and a comment keeps
\* task, author (the requester of the addComment) and content until it is
\* deleted.
SetOnceFieldsKept == [][SetOnceStep]_vars

\* an updateTask whose body named another board and another creator succeeded
\* on a task that has a comment
UpdateNamedOtherBoard ==
    /\ last.op = "updateTask"
    /\ last.status = "Ok"
    /\ last.data.board \in (DOMAIN boards) \ {tasks[last.id].board}
    /\ last.data.created_by \in Users \ {tasks[last.id].created_by}
    /\ \E c \in DOMAIN comments : comments[c].task = last.id

\* the step of an updateBoard: tasks, comments and the other boards are as they
\* were, no board appears or disappears, and the addressed board keeps its owner
UpdateBoardStep ==
    last'.op = "updateBoard" =>
        /\ tasks' = tasks
        /\ comments' = comments
        /\ DOMAIN boards' = DOMAIN boards
        /\ \A b \in DOMAIN boards :
              /\ b # last'.id => boards'[b] = boards[b]
              /\ boards'[b].owner = boards[b].owner

\* C23: updateBoard changes only the title and the members of the addressed
\* board and leaves every task and comment as it was, so assignee and reviewer
\* are not checked again when the members shrink.
UpdateBoardFrame == [][UpdateBoardStep]_vars

\* after an updateBoard that shrank the members, a task with a comment has an
\* assignee and a reviewer who are no longer members of the task's board
StaleAssignee ==
    /\ last.op = "updateBoard"
    /\ last.status = "Ok"
    /\ \E t \in DOMAIN tasks :
          /\ tasks[t].board = last.id
          /\ tasks[t].assignee \in Users \ boards[last.id].members
          /\ tasks[t].reviewer \in Users \ boards[last.id].members
          /\ \E c \in DOMAIN comments : comments[c].task = t

\* the two states of a step differ only in whether comment c exists, and where
\* it exists it is a comment of another task than t
DifferInComment(c, t) ==
    /\ boards' = boards
    /\ tasks' = tasks
    /\ \/ /\ c \in DOMAIN comments
          /\ comments[c].task # t
          /\ comments' = Drop(comments, {c})
       \/ /\ c \in DOMAIN comments'
          /\ comments'[c].task # t
          /\ comments = Drop(comments', {c})

\* deleteComment(t, c) answers every requester alike in two such states
NonLeakStep ==
    \A u \in Users, t \in TaskIds, c \in CommentIds :
        DifferInComment(c, t) =>
            /\ delete_comment_response(u, t, c)' = delete_comment_response(u, t, c)
            /\ delete_comment_response(u, t, c).status = "NotFound"
            /\ delete_comment_response(u, t, c).unchanged

\* C24: deleteComment does not reveal that a comment exists under another
\* task: in two states that differ only in whether comment c is absent or is a
\* comment of a task other than t, deleteComment(t, c) gives every requester
\* the same response, NotFound, and changes neither state.
CrossTaskHidden == [][NonLeakStep]_vars

\* every task references an existing board, every comment an existing task
ReferentialIntegrity ==
    /\ \A t \in DOMAIN tasks : tasks[t].board \in DOMAIN boards
    /\ \A c \in DOMAIN comments : comments[c].task \in DOMAIN tasks

\* worker w completes a delete of the given kind with success in this step
Deletes(w, op) ==
    /\ inflight[w].op = op
    /\ inflight[w].pc = "deleting"
    /\ inflight'[w].pc = "done"
    /\ inflight'[w].status = "Ok"

\* the rows after the step reference existing rows; a completed deleteTask
\* removes the task and exactly its comments, a completed deleteBoard the board,
\* exactly its tasks and exactly their comments
IntegrityStep ==
    /\ ReferentialIntegrity'
    /\ \A w \in Workers :
          Deletes(w, "deleteTask") =>
              LET X == inflight[w].id IN
              /\ boards' = boards
              /\ tasks' = Drop(tasks, {X})
              /\ comments' = Drop(comments, {c \in DOMAIN comments : comments[c].task = X})
    /\ \A w \in Workers :
          Deletes(w, "deleteBoard") =>
              LET X == inflight[w].id
                  gone == {t \in DOMAIN tasks : tasks[t].board = X}
              IN
              /\ boards' = Drop(boards, {X})
              /\ tasks' = Drop(tasks, gone)
              /\ comments' = Drop(comments, {c \in DOMAIN comments : comments[c].task \in gone})

\* C25: referential integrity holds in every reachable state: every task
\* references an existing board and every comment an existing task; deleteTask
\* removes all comments of the deleted task and no other comment, deleteBoard
\* removes all tasks of the deleted board and no other task.
ReferencesHold == [][IntegrityStep]_vars

\* a deleteBoard went through that took a task and its comment with it, the
\* task and the comment of the other board are still there, and a write of the
\* request in progress at the same time was refused by a foreign key
BoardGoneOthersKept ==
    /\ inflight[NumWorkers].op = "deleteBoard"
    /\ inflight[NumWorkers].status = "Ok"
    /\ inflight[1].status = "ServerError"
    /\ Cardinality(DOMAIN boards) = 1
    /\ nextTaskId = 3 /\ Cardinality(DOMAIN tasks) = 1
    /\ nextCommentId = 3 /\ Cardinality(DOMAIN comments) = 1

\* the owner of every existing board may read it, update it (a PATCH that
\* carries no field has nothing to validate) and delete it
OwnerAllowed ==
    \A b \in DOMAIN boards :
        /\ BoardViewSet_retrieve(boards[b].owner, b) = Ok
        /\ BoardViewSet_update(boards[b].owner, b, TitleAbsent, NoMembers, TRUE).resp = Ok
        /\ BoardViewSet_destroy(boards[b].owner, b).resp = Ok

\* no request changes the owner of a board, and after every request the owners
\* are allowed on their boards
OwnerStep ==
    /\ \A b \in (DOMAIN boards) \cap (DOMAIN boards') : boards'[b].owner = boards[b].owner
    /\ OwnerAllowed'

RefusedAsNonMember(u, t) ==
    u \notin boards[tasks[t].board].members =>
        /\ TaskViewSet_partial_update(u, t, "T1", Absent, Absent).resp = Forbidden
        /\ TaskViewSet_comments_get(u, t).resp = Forbidden
        /\ TaskViewSet_comments_post(u, t, "c", nextCommentId).resp = Forbidden

\* C27: delete rights do not depend on the current members: in every reachable
\* state the creator of a task may delete it and the author of a comment may
\* delete it, also after an updateBoard removed them from the members, while
\* the same user is then Forbidden to update the task and to read or add
\* comments.
DeleteRightsKept ==
    /\ \A t \in DOMAIN tasks :
          /\ TaskViewSet_destroy(tasks[t].created_by, t).resp = Ok
          /\ RefusedAsNonMember(tasks[t].created_by, t)
    /\ \A c \in DOMAIN comments :
          /\ TaskViewSet_delete_comment(comments[c].author, comments[c].task, c).resp = Ok
          /\ RefusedAsNonMember(comments[c].author, comments[c].task)

\* a user who is neither a member nor the owner of the board has deleted a
\* task, which only its creator can have done
FormerMemberDeletedTask ==
    /\ last.op = "deleteTask"
    /\ last.status = "Ok"
    /\ \A b \in DOMAIN boards : last.who \notin boards[b].members \cup {boards[b].owner}
    /\ DOMAIN boards # {}
    /\ nextBoardId = CommentSpecBoards + 1
====
